---- MODULE Spec2Model ----
(***************************************************************************)
(* Model of the inbox ingestion engine of gmail-deepclean (package api):   *)
(* the ProcessorRegistry, the InboxProcessor with its background           *)
(* processInbox loop and per-message processMessage goroutines, the        *)
(* EmailStats counters, and the HandleStartProcessingInbox handler.        *)
(*                                                                         *)
(* Every critical section (Lock .. Unlock with no blocking call inside)    *)
(* is one atomic action; every remote call (Messages.List, Messages.Get)   *)
(* is a step of its own that succeeds or fails nondeterministically.       *)
(***************************************************************************)
EXTENDS Integers, Sequences, FiniteSets, Bags, TLC

\* Number of concurrent callers (HTTP requests in Spec, direct callers of
\* StartProcessing in SpecProcessor).
MaxReqs == 2

\* Number of messages in the remote mailbox (ids 1..MaxMsgs).
MaxMsgs == 3

\* Messages per listing page (pageSize of processInbox, scaled down).
PageSize == 2

\* token.AccessToken[:10]
KeyLen == 10

VARIABLES
    processors,    \* Registry.processors: map userID -> processor
    created,       \* the InboxProcessor instances constructed so far
    isProcessing,  \* InboxProcessor.isProcessing, per instance
    emails,        \* InboxProcessor.emails, per instance (bag of EmailMetadata)
    stats,         \* InboxProcessor.stats (EmailStats), per instance
    loops,         \* the processInbox goroutines, in the order they were started
    reqs,          \* the callers: handler goroutines / StartProcessing callers
    locks,         \* the holders of each sync.RWMutex (SpecLocks)
    fn             \* one application of a function to a drawn input
                   \* (SpecExtract, SpecTopSenders)

vars == <<processors, created, isProcessing, emails, stats, loops, reqs, locks, fn>>

Reqs == 1..MaxReqs

\* An InboxProcessor is named after the request that constructed it.
Procs == Reqs

\* A processInbox goroutine is named by its rank among those started; each
\* caller starts at most one.
Runs == 1..MaxReqs

Msgs == 1..MaxMsgs

NoProc == 0

\* The three kinds of sync.RWMutex: Registry.mu, InboxProcessor.mu, EmailStats.mu.
Locks == {<<"registry", NoProc>>} \cup ({"mu", "stats"} \X Procs)

\* No lock held.
Unlocked == [k \in Locks |-> {}]

\* No function application in progress.
NoFn == [pc |-> "none"]

\* A Go map with no entries.
EmptyMap == [k \in {} |-> 0]

\* m[k] of a Go map: the zero value when the key is absent.
MapGet(m, k) == IF k \in DOMAIN m THEN m[k] ELSE 0

\* Faulty variant of MapAdd: m[k] = d.
MapAdd_Assign(m, k, d) ==
    IF k \in DOMAIN m THEN [m EXCEPT ![k] = d] ELSE m @@ (k :> d)

\* m[k] += d of a Go map.
MapAdd(m, k, d) ==
    IF k \in DOMAIN m THEN [m EXCEPT ![k] = @ + d] ELSE m @@ (k :> d)

----------------------------------------------------------------------------
(* The remote mailbox (external Gmail API), fixed for a run.               *)

\* Header values are strings, modelled as sequences of characters.
FromValue(m) == IF m % 2 = 1 THEN <<"A", " ", "<", "a", ">">> ELSE <<"b">>

ToValues(m) ==
    IF m % 3 = 1 THEN << <<"x">>, <<"X", " ", "<", "x", ">">> >> ELSE << <<"y">> >>

\* A Date header value is abstracted to the layout it is written in and the
\* calendar day it denotes. Day 0 stands for the instant 0001-01-01T00:00:00Z,
\* the zero value of time.Time.
DateValue(m) ==
    CASE m % 3 = 1 -> [layout |-> "RFC1123Z", day |-> 1]
      [] m % 3 = 2 -> [layout |-> "D1Z", day |-> 2]
      [] OTHER     -> [layout |-> "bad", day |-> 3]

\* gmail.Message returned by Users.Messages.Get(user, id).Format("full").
\* Payload is a *gmail.MessagePart: IsNil marks the nil pointer.
Message(m) ==
    [Id |-> m,
     SizeEstimate |-> m,
     Payload |-> [IsNil |-> FALSE,
                  Headers |-> <<[Name |-> "From", Value |-> FromValue(m)]>>
                              \o [i \in 1..Len(ToValues(m)) |->
                                     [Name |-> "To", Value |-> ToValues(m)[i]]]
                              \o <<[Name |-> "Date", Value |-> DateValue(m)]>>]]

\* Page tokens: 0 is the empty token "", k > 0 names the page after k pages.
NumPages == (MaxMsgs + PageSize - 1) \div PageSize

PageMessages(tok) ==
    [i \in 1..(IF (tok + 1) * PageSize <= MaxMsgs
               THEN PageSize ELSE MaxMsgs - tok * PageSize) |-> tok * PageSize + i]

\* gmail.ListMessagesResponse of Users.Messages.List(user).PageToken(tok).Do()
ListMessages(tok) ==
    [Messages |-> PageMessages(tok),
     NextPageToken |-> IF tok + 1 < NumPages THEN tok + 1 ELSE 0]

----------------------------------------------------------------------------
(* Metadata extraction (processMessage, first half).                       *)

FirstIndex(s, c) ==
    IF \E i \in 1..Len(s) : s[i] = c
    THEN CHOOSE i \in 1..Len(s) : s[i] = c /\ \A j \in 1..(i - 1) : s[j] # c
    ELSE 0

LastIndex(s, c) ==
    IF \E i \in 1..Len(s) : s[i] = c
    THEN CHOOSE i \in 1..Len(s) : s[i] = c /\ \A j \in (i + 1)..Len(s) : s[j] # c
    ELSE 0

\* extractEmailAddress: start and end are the Go (0-based) indices.
extractEmailAddress(header) ==
    LET start == FirstIndex(header, "<")
        end   == IF LastIndex(header, ">") = 0 THEN Len(header)
                 ELSE LastIndex(header, ">") - 1
    IN IF start < end THEN SubSeq(header, start + 1, end) ELSE header

\* time.Parse(format, value) succeeds
ParseOK(format, value) ==
    CASE format = "RFC1123Z" -> value.layout = "RFC1123Z"
      [] format = "RFC1123"  -> value.layout = "RFC1123"
      [] format = "D1Z"      -> value.layout \in {"RFC1123Z", "D1Z"}
      [] format = "D1ZMST"   -> value.layout \in {"D1ZMST"}
      [] OTHER               -> FALSE

DateFormats == <<"RFC1123Z", "RFC1123", "D1Z", "D1ZMST">>

\* time.Time.IsZero
IsZero(t) == t = 0

\* The Date case of the header switch: whether some time.Parse succeeded
\* and the time.Time it returned.
ParseDate(value) ==
    IF ParseOK("RFC1123Z", value) THEN [ok |-> TRUE, t |-> value.day]
    ELSE IF \E i \in 1..Len(DateFormats) : ParseOK(DateFormats[i], value)
         THEN [ok |-> TRUE, t |-> value.day]
         ELSE [ok |-> FALSE, t |-> 0]

RECURSIVE ExtractHeaders(_, _)
ExtractHeaders(md, hs) ==
    IF hs = <<>> THEN md
    ELSE LET h == Head(hs)
             nxt == CASE h.Name = "From" ->
                            [md EXCEPT !.From = extractEmailAddress(h.Value)]
                      [] h.Name = "To" ->
                            [md EXCEPT !.To = Append(@, extractEmailAddress(h.Value))]
                      [] h.Name = "Date" ->
                            IF ParseDate(h.Value).ok
                            THEN [md EXCEPT !.Date = ParseDate(h.Value).t]
                            ELSE md
                      [] OTHER -> md
         IN ExtractHeaders(nxt, Tail(hs))

\* EmailMetadata built by processMessage from a fetched message.
Metadata(msg) ==
    ExtractHeaders([ID |-> msg.Id, From |-> <<>>, To |-> <<>>, Date |-> 0,
                    SizeEstimate |-> msg.SizeEstimate], msg.Payload.Headers)

\* The record processMessage builds for each message of the mailbox.
MetadataOf == [m \in Msgs |-> Metadata(Message(m))]

----------------------------------------------------------------------------
(* EmailStats updates.                                                     *)

NewEmailStats ==
    [FromCount |-> EmptyMap, ToCount |-> EmptyMap, FromSize |-> EmptyMap,
     DateCount |-> EmptyMap, TotalEmails |-> 0]

RECURSIVE AddRecipients(_, _)
AddRecipients(tc, to) ==
    IF to = <<>> THEN tc ELSE AddRecipients(MapAdd(tc, Head(to), 1), Tail(to))

\* Faulty variant of FromCountOne: assigns 1 instead of incrementing.
FromCountOne_Set(fc, from) == IF from \in DOMAIN fc THEN [fc EXCEPT ![from] = 1]
                              ELSE fc @@ (from :> 1)

\* p.stats.FromCount[metadata.From]++
FromCountOne(fc, from) == MapAdd(fc, from, 1)

\* The first statement of the statistics section.
RecordFromCount(st, md) == [st EXCEPT !.FromCount = FromCountOne(@, md.From)]

\* The remaining statements of the statistics section.
RecordRest(st, md) ==
    [st EXCEPT !.FromSize  = MapAdd(@, md.From, md.SizeEstimate),
               !.ToCount   = AddRecipients(@, md.To),
               !.DateCount = IF ~IsZero(md.Date) THEN MapAdd(@, md.Date, 1) ELSE @]

\* The statistics section of processMessage (under p.stats.mu).
RecordStats(st, md) == RecordRest(RecordFromCount(st, md), md)

\* Faulty variant of PageTotal: = instead of +=.
PageTotal_Assign(total, messages) == Len(messages)

\* p.stats.TotalEmails += len(resp.Messages)
PageTotal(total, messages) == total + Len(messages)

----------------------------------------------------------------------------
(* State of the goroutines.                                                *)

\* A processInbox goroutine. calls is the log of the listing requests it has
\* issued: the token sent and the NextPageToken received (-1 on error).
NoLoop ==
    [pc |-> "none", proc |-> NoProc, pageToken |-> 0, resp |-> ListMessages(0),
     w |-> [m \in Msgs |-> "none"], calls |-> <<>>]

\* The listing request of this goroutine that returned an error, if any.
ListFailed(lp) == \E i \in 1..Len(lp.calls) : lp.calls[i].next = -1

\* A run of p has ended through a listing error and p is idle.
RunFailed(p) ==
    /\ ~isProcessing[p]
    /\ \E l \in Runs : /\ loops[l].proc = p
                       /\ loops[l].pc \in {"log", "done"}
                       /\ ListFailed(loops[l])

NoResp == [status |-> "none", proc |-> NoProc, totalEmails |-> 0, isProcessing |-> FALSE]

\* The access tokens callers present.
Tokens == { [i \in 1..(KeyLen + 1) |-> "t"] }

\* userID := token.AccessToken[:10]
UserID(tok) == SubSeq(tok, 1, KeyLen)

TypeOK ==
    /\ created \subseteq Procs
    /\ DOMAIN processors \subseteq {UserID(t) : t \in Tokens}
    /\ \A k \in DOMAIN processors : processors[k] \in created
    /\ isProcessing \in [Procs -> BOOLEAN]
    /\ \A p \in Procs : IsABag(emails[p])
    /\ \A l \in Runs :
          /\ loops[l].pc \in {"none", "list", "wait", "total", "totaling", "clear",
                              "clearing", "log", "done"}
          /\ loops[l].proc \in Procs \cup {NoProc}
          /\ \A m \in Msgs :
                loops[l].w[m] \in {"none", "fetch", "append", "appending", "record",
                                  "counting", "sizing", "done", "failed"}
    /\ \A r \in Reqs :
          reqs[r].pc \in {"idle", "new", "register", "start", "progress", "call", "done",
                         "progress_read", "top_range", "top_sort", "encoding",
                         "get_read", "register_write", "remove_write", "start_check"}
    /\ \A k \in Locks : \A h \in locks[k] : h.mode \in {"r", "w"}
    /\ fn.pc \in {"none", "fetched", "extracted", "recorded", "panic", "stats", "top"}

Init ==
    /\ processors = EmptyMap
    /\ created = {}
    /\ isProcessing = [p \in Procs |-> FALSE]
    /\ emails = [p \in Procs |-> EmptyBag]
    /\ stats = [p \in Procs |-> NewEmailStats]
    /\ loops = [l \in Runs |-> NoLoop]
    /\ reqs = [r \in Reqs |-> [pc |-> "idle", tok |-> <<>>, proc |-> NoProc,
                               afterFailed |-> FALSE, resp |-> NoResp]]
    /\ locks = Unlocked
    /\ fn = NoFn

\* One InboxProcessor constructed by NewInboxProcessor; every caller is about
\* to call StartProcessing on it.
InitProcessor ==
    /\ processors = EmptyMap
    /\ created = {1}
    /\ isProcessing = [p \in Procs |-> FALSE]
    /\ emails = [p \in Procs |-> EmptyBag]
    /\ stats = [p \in Procs |-> NewEmailStats]
    /\ loops = [l \in Runs |-> NoLoop]
    /\ reqs = [r \in Reqs |-> [pc |-> "call", tok |-> <<>>, proc |-> 1,
                               afterFailed |-> FALSE, resp |-> NoResp]]
    /\ locks = Unlocked
    /\ fn = NoFn

----------------------------------------------------------------------------
(* InboxProcessor.StartProcessing                                          *)

\* Faulty variant of AlreadyProcessing: the flag is not tested.
AlreadyProcessing_NoCheck(p) == FALSE

\* if p.isProcessing { return error }
AlreadyProcessing(p) == isProcessing[p]

\* Faulty variant of FirstPageToken: the cursor of the last page.
FirstPageToken_Last == NumPages - 1

\* pageToken := "" at the top of processInbox
FirstPageToken == 0

\* The rank the next goroutine gets.
NewRun == 1 + Cardinality({l \in Runs : loops[l].pc # "none"})

\* The locked section of StartProcessing followed by `go p.processInbox()`.
StartProcessingOK(p) ==
    /\ ~AlreadyProcessing(p)
    /\ isProcessing' = [isProcessing EXCEPT ![p] = TRUE]
    /\ loops' = [loops EXCEPT ![NewRun] = [NoLoop EXCEPT !.pc = "list", !.proc = p,
                                                        !.pageToken = FirstPageToken]]

\* Faulty variant of StartProcessingErr: the refused call stops the run.
StartProcessingErr_Stop(p) ==
    /\ AlreadyProcessing(p)
    /\ isProcessing' = [isProcessing EXCEPT ![p] = FALSE]
    /\ UNCHANGED loops

\* if p.isProcessing { p.mu.Unlock(); return error }
StartProcessingErr(p) ==
    /\ AlreadyProcessing(p)
    /\ UNCHANGED <<isProcessing, loops>>

\* GetProgress: under p.mu.RLock
GetProgress(p) ==
    [status |-> "ok", proc |-> p, totalEmails |-> stats[p].TotalEmails,
     isProcessing |-> isProcessing[p]]

\* A direct call of p.StartProcessing() (SpecProcessor).
StartProcessing(r) ==
    /\ reqs[r].pc = "call"
    /\ LET p == reqs[r].proc IN
         \/ /\ StartProcessingOK(p)
            /\ reqs' = [reqs EXCEPT ![r].pc = "done", ![r].resp.status = "nil"]
         \/ /\ StartProcessingErr(p)
            /\ reqs' = [reqs EXCEPT ![r].pc = "done", ![r].resp.status = "error"]
    /\ UNCHANGED <<fn, locks, processors, created, emails, stats>>

----------------------------------------------------------------------------
(* HandleStartProcessingInbox, step by step.                               *)

\* ParseToken, userID, Registry.Get(userID). afterFailed notes that the
\* request arrived after the identity's run had ended through a listing error.
HandleStartGet(r) ==
    /\ reqs[r].pc = "idle"
    /\ \E tok \in Tokens :
          IF UserID(tok) \in DOMAIN processors
          THEN reqs' = [reqs EXCEPT ![r].pc = "progress", ![r].tok = tok,
                                    ![r].proc = processors[UserID(tok)],
                                    ![r].afterFailed = RunFailed(processors[UserID(tok)])]
          ELSE reqs' = [reqs EXCEPT ![r].pc = "new", ![r].tok = tok]
    /\ UNCHANGED <<fn, locks, processors, created, isProcessing, emails, stats, loops>>

\* NewInboxProcessor(token): a fresh instance, or an error (500).
HandleStartNew(r) ==
    /\ reqs[r].pc = "new"
    /\ \/ /\ created' = created \cup {r}
          /\ reqs' = [reqs EXCEPT ![r].pc = "register", ![r].proc = r]
       \/ /\ reqs' = [reqs EXCEPT ![r].pc = "done", ![r].resp.status = "error500"]
          /\ UNCHANGED created
    /\ UNCHANGED <<fn, locks, processors, isProcessing, emails, stats, loops>>

\* Registry.Register(userID, processor): r.processors[userID] = processor
Register(userID, processor) ==
    processors' = IF userID \in DOMAIN processors
                  THEN [processors EXCEPT ![userID] = processor]
                  ELSE processors @@ (userID :> processor)

HandleStartRegister(r) ==
    /\ reqs[r].pc = "register"
    /\ Register(UserID(reqs[r].tok), reqs[r].proc)
    /\ reqs' = [reqs EXCEPT ![r].pc = "start"]
    /\ UNCHANGED <<fn, locks, created, isProcessing, emails, stats, loops>>

\* processor.StartProcessing()
HandleStartStart(r) ==
    /\ reqs[r].pc = "start"
    /\ LET p == reqs[r].proc IN
         \/ /\ StartProcessingOK(p)
            /\ reqs' = [reqs EXCEPT ![r].pc = "progress"]
         \/ /\ StartProcessingErr(p)
            /\ reqs' = [reqs EXCEPT ![r].pc = "done", ![r].resp.status = "error500"]
    /\ UNCHANGED <<fn, locks, processors, created, emails, stats>>

\* json.NewEncoder(w).Encode(processor.GetProgress())
HandleStartReply(r) ==
    /\ reqs[r].pc = "progress"
    /\ reqs' = [reqs EXCEPT ![r].pc = "done", ![r].resp = GetProgress(reqs[r].proc)]
    /\ UNCHANGED <<fn, locks, processors, created, isProcessing, emails, stats, loops>>

----------------------------------------------------------------------------
(* processInbox and processMessage.                                        *)

InFlight(lp) ==
    {m \in Msgs : lp.w[m] \in {"fetch", "append", "appending", "record",
                               "counting", "sizing"}}

\* Faulty variant of ListError: the loop continues instead of breaking.
ListError_Retry(lp) ==
    [lp EXCEPT !.calls = Append(@, [token |-> lp.pageToken, next |-> -1])]

\* err != nil after req.Do(): log and break
ListError(lp) ==
    [lp EXCEPT !.pc = "clear",
               !.calls = Append(@, [token |-> lp.pageToken, next |-> -1])]

\* req.Do() of the listing request, then one goroutine per listed message
ListPage(l) ==
    /\ loops[l].pc = "list"
    /\ \/ LET resp == ListMessages(loops[l].pageToken) IN
            loops' = [loops EXCEPT
              ![l].pc = "wait",
              ![l].resp = resp,
              ![l].calls = Append(@, [token |-> loops[l].pageToken,
                                      next |-> resp.NextPageToken]),
              ![l].w = [m \in Msgs |->
                          IF \E i \in 1..Len(resp.Messages) : resp.Messages[i] = m
                          THEN "fetch" ELSE @[m]]]
       \/ loops' = [loops EXCEPT ![l] = ListError(@)]
    /\ UNCHANGED <<fn, locks, processors, created, isProcessing, emails, stats, reqs>>

\* Faulty variant of FetchError: the failure also ends the loop.
FetchError_Abort(lp, m) == [lp EXCEPT !.w[m] = "failed", !.pc = "clear"]

\* err != nil after Messages.Get: log and return (wg.Done)
FetchError(lp, m) == [lp EXCEPT !.w[m] = "failed"]

\* Users.Messages.Get(user, messageID).Format("full").Do()
FetchMessage(l, m) ==
    /\ loops[l].w[m] = "fetch"
    /\ \/ loops' = [loops EXCEPT ![l].w[m] = "append"]
       \/ loops' = [loops EXCEPT ![l] = FetchError(@, m)]
    /\ UNCHANGED <<fn, locks, processors, created, isProcessing, emails, stats, reqs>>

\* p.mu.Lock(); p.emails = append(p.emails, metadata); p.mu.Unlock()
AppendEmail(l, m) ==
    /\ loops[l].w[m] = "append"
    /\ emails' = [emails EXCEPT ![loops[l].proc] = @ (+) SetToBag({MetadataOf[m]})]
    /\ loops' = [loops EXCEPT ![l].w[m] = "record"]
    /\ UNCHANGED <<fn, locks, processors, created, isProcessing, stats, reqs>>

\* p.stats.mu.Lock(); ...counters...; p.stats.mu.Unlock(); wg.Done()
UpdateStats(l, m) ==
    /\ loops[l].w[m] = "record"
    /\ stats' = [stats EXCEPT ![loops[l].proc] = RecordStats(@, MetadataOf[m])]
    /\ loops' = [loops EXCEPT ![l].w[m] = "done"]
    /\ UNCHANGED <<fn, locks, processors, created, isProcessing, emails, reqs>>

\* Faulty variant of WaitReturns: a wg.Done() is missed and Wait blocks.
WaitReturns_Never(lp) == FALSE

\* Faulty variant of WaitReturns: returns after the first wg.Done().
WaitReturns_First(lp) ==
    \/ lp.resp.Messages = <<>>
    \/ \E i \in 1..Len(lp.resp.Messages) : lp.w[lp.resp.Messages[i]] \in {"done", "failed"}

\* Faulty variant of WaitReturns: no join barrier.
WaitReturns_NoBarrier(lp) == TRUE

\* wg.Wait() returns once every goroutine of the page has called wg.Done()
WaitReturns(lp) == InFlight(lp) = {}

WaitPage(l) ==
    /\ loops[l].pc = "wait"
    /\ WaitReturns(loops[l])
    /\ loops' = [loops EXCEPT ![l].pc = "total"]
    /\ UNCHANGED <<fn, locks, processors, created, isProcessing, emails, stats, reqs>>

\* Faulty variant of LastPage: the token is never found empty.
LastPage_Never(resp) == FALSE

\* if resp.NextPageToken == "" { break }
LastPage(resp) == resp.NextPageToken = 0

\* TotalEmails update under p.stats.mu, then the NextPageToken test
UpdateTotal(l) ==
    /\ loops[l].pc = "total"
    /\ stats' = [stats EXCEPT ![loops[l].proc].TotalEmails =
                                 PageTotal(@, loops[l].resp.Messages)]
    /\ loops' = IF LastPage(loops[l].resp)
                THEN [loops EXCEPT ![l].pc = "clear"]
                ELSE [loops EXCEPT ![l].pc = "list",
                                   ![l].pageToken = loops[l].resp.NextPageToken]
    /\ UNCHANGED <<fn, locks, processors, created, isProcessing, emails, reqs>>

\* p.mu.Lock(); p.isProcessing = false; p.mu.Unlock()
ClearProcessing(l) ==
    /\ loops[l].pc = "clear"
    /\ isProcessing' = [isProcessing EXCEPT ![loops[l].proc] = FALSE]
    /\ loops' = [loops EXCEPT ![l].pc = "log"]
    /\ UNCHANGED <<fn, locks, processors, created, emails, stats, reqs>>

\* log.Printf("Email processing complete ...", p.stats.TotalEmails)
LogComplete(l) ==
    /\ loops[l].pc = "log"
    /\ loops' = [loops EXCEPT ![l].pc = "done"]
    /\ UNCHANGED <<fn, locks, processors, created, isProcessing, emails, stats, reqs>>

LoopNext ==
    \E l \in Runs :
        \/ ListPage(l)
        \/ \E m \in Msgs : FetchMessage(l, m)
        \/ \E m \in Msgs : AppendEmail(l, m)
        \/ \E m \in Msgs : UpdateStats(l, m)
        \/ WaitPage(l)
        \/ UpdateTotal(l)
        \/ ClearProcessing(l)
        \/ LogComplete(l)

HandlerNext ==
    \E r \in Reqs :
        \/ HandleStartGet(r)
        \/ HandleStartNew(r)
        \/ HandleStartRegister(r)
        \/ HandleStartStart(r)
        \/ HandleStartReply(r)

Next == HandlerNext \/ LoopNext

\* The HTTP boundary: concurrent start requests.
Spec == Init /\ [][Next]_vars

NextProcessor == (\E r \in Reqs : StartProcessing(r)) \/ LoopNext

\* One InboxProcessor instance and concurrent callers of StartProcessing.
SpecProcessor == InitProcessor /\ [][NextProcessor]_vars

----------------------------------------------------------------------------
(* Shared vocabulary of the properties.                                    *)

\* The goroutine is inside processInbox's loop or about to clear the flag.
LoopActive(lp) ==
    lp.pc \in {"list", "wait", "total", "totaling", "clear", "clearing"}

LoopsOf(p) == {l \in Runs : loops[l].proc = p}

ActiveLoops(p) == {l \in LoopsOf(p) : LoopActive(loops[l])}

\* The identity key a constructed processor was created for (p.token).
ProcKey(p) == UserID(reqs[p].tok)

Keys == {UserID(t) : t \in Tokens}

\* Number of record operations (statistics sections) completed on p.
Recorded(p) ==
    Cardinality({x \in Runs \X Msgs :
                    loops[x[1]].proc = p /\ loops[x[1]].w[x[2]] = "done"})

\* Number of metadata records of p's collection whose sender is s.
EmailsFrom(p, s) ==
    LET B == emails[p]
        S == {e \in BagToSet(B) : e.From = s}
    IN BagCardinality([e \in S |-> B[e]])

----------------------------------------------------------------------------
(* C1..C5                                                                  *)

\* C1: for one identity key at most one ingestion loop is running at any
\* time, whatever the interleaving of start requests.
C1_AtMostOneRunPerIdentity ==
    \A k \in Keys :
        Cardinality({l \in Runs : LoopActive(loops[l]) /\ ProcKey(loops[l].proc) = k}) <= 1

\* C2: StartProcessing on an instance whose isProcessing is set returns an
\* error and changes nothing; otherwise it sets the flag and launches exactly
\* one loop; so an instance never has two active loops, and its flag is set
\* exactly while it has one.
C2_Inv ==
    \A p \in created :
        /\ Cardinality(ActiveLoops(p)) <= 1
        /\ isProcessing[p] <=> ActiveLoops(p) # {}

C2_Step ==
    \A r \in Reqs :
        (reqs[r].pc = "call" /\ reqs'[r].pc = "done") =>
            LET p == reqs[r].proc IN
            IF isProcessing[p]
            THEN /\ reqs'[r].resp.status = "error"
                 /\ UNCHANGED <<isProcessing, loops, emails, stats, processors, created>>
            ELSE /\ reqs'[r].resp.status = "nil"
                 /\ isProcessing'[p]
                 /\ Cardinality({l \in Runs : /\ ~LoopActive(loops[l])
                                              /\ LoopActive(loops'[l])
                                              /\ loops'[l].proc = p}) = 1
                 /\ Cardinality(ActiveLoops(p)') = 1

C2_StartProcessingExclusive == []C2_Inv /\ [][C2_Step]_vars

\* One caller was refused while the loop another caller launched is running.
C2_Witness ==
    \E r1, r2 \in Reqs :
        /\ reqs[r1].resp.status = "error"
        /\ reqs[r2].resp.status = "nil"
        /\ loops[1].pc = "wait"
        /\ \A l \in Runs \ {1} : loops[l].pc = "none"

\* C3: two start requests for one identity answer with the status of the same
\* processor instance, and no processor collects a message twice.
C3_SameRunNoDoubleCount ==
    /\ \A r1, r2 \in Reqs :
          (/\ reqs[r1].resp.status = "ok"
           /\ reqs[r2].resp.status = "ok"
           /\ UserID(reqs[r1].tok) = UserID(reqs[r2].tok))
          => reqs[r1].resp.proc = reqs[r2].resp.proc
    /\ \A p \in created : \A e \in BagToSet(emails[p]) : emails[p][e] = 1

\* C4: for one identity key exactly one processor is ever constructed, and
\* the registry only ever holds that one.
C4_OneProcessorPerKey ==
    \A k \in Keys :
        /\ Cardinality({p \in created : ProcKey(p) = k}) <= 1
        /\ k \in DOMAIN processors => \A p \in created : ProcKey(p) = k => processors[k] = p

\* C5: whenever no page is in progress, TotalEmails equals the number of
\* record operations performed.
C5_TotalEqualsRecorded ==
    \A p \in created :
        (\A l \in LoopsOf(p) : loops[l].pc \notin {"wait", "total"})
        => stats[p].TotalEmails = Recorded(p)

----------------------------------------------------------------------------
(* C6..C10                                                                 *)

\* Indices in lp.calls of the pages whose join barrier and TotalEmails
\* update are both behind the goroutine.
CompletedPages(lp) ==
    {i \in 1..Len(lp.calls) :
        /\ lp.calls[i].next # -1
        /\ ~(i = Len(lp.calls) /\ lp.pc \in {"wait", "total"})}

\* Number of identifiers listed on the completed pages of all runs of p.
CompletedIds(p) ==
    Cardinality({x \in Runs \X (1..NumPages) \X (1..PageSize) :
                    /\ loops[x[1]].proc = p
                    /\ x[2] \in CompletedPages(loops[x[1]])
                    /\ x[3] <= Len(PageMessages(loops[x[1]].calls[x[2]].token))})

\* The fetch-and-process units of p (goroutine, message) in the given state.
Units(p, state) ==
    {x \in Runs \X Msgs : loops[x[1]].proc = p /\ loops[x[1]].w[x[2]] = state}

\* C6: TotalEmails is the number of identifiers on the completed pages, failed
\* fetches included, so it exceeds the number of aggregated records by the
\* number of failed fetches; the per-sender and per-day counters count the
\* successfully fetched messages only.
C6_TotalCountsListedIds ==
    \A p \in created :
        /\ stats[p].TotalEmails = CompletedIds(p)
        /\ (\A l \in LoopsOf(p) : loops[l].pc \notin {"wait", "total"})
              => stats[p].TotalEmails =
                    Recorded(p) + Cardinality(Units(p, "failed"))
        /\ \A s \in {MetadataOf[m].From : m \in Msgs} :
              MapGet(stats[p].FromCount, s) =
                  Cardinality({x \in Units(p, "done") : MetadataOf[x[2]].From = s})
        /\ \A d \in {MetadataOf[m].Date : m \in Msgs} \ {0} :
              MapGet(stats[p].DateCount, d) =
                  Cardinality({x \in Units(p, "done") : MetadataOf[x[2]].Date = d})
        /\ DOMAIN stats[p].FromCount \subseteq {MetadataOf[m].From : m \in Msgs}
        /\ DOMAIN stats[p].DateCount \subseteq {MetadataOf[m].Date : m \in Msgs} \ {0}

\* A finished run in which a detail fetch failed: the total is the whole
\* mailbox and exceeds the number of records.
C6_Witness ==
    \E l \in Runs :
        /\ loops[l].pc = "done"
        /\ loops[l].w[2] = "failed"
        /\ stats[loops[l].proc].TotalEmails = MaxMsgs
        /\ Recorded(loops[l].proc) = MaxMsgs - 1
        /\ \A k \in Runs \ {l} : loops[k].pc = "none"

RECURSIVE SizeSum(_, _)
SizeSum(B, S) ==
    IF S = {} THEN 0
    ELSE LET e == CHOOSE x \in S : TRUE
         IN B[e] * e.SizeEstimate + SizeSum(B, S \ {e})

\* Sum of the size estimates of p's collected records whose sender is s.
SizeFrom(p, s) == SizeSum(emails[p], {e \in BagToSet(emails[p]) : e.From = s})

UnitsInFlight(p) == \E l \in LoopsOf(p) : InFlight(loops[l]) # {}

\* C7: FromCount[s] never exceeds the number of collected records with sender
\* s, and with no unit in flight FromCount[s] is that number and FromSize[s]
\* the sum of those records' sizes.
C7_SenderCountedOnce ==
    \A p \in created :
        \A s \in DOMAIN stats[p].FromCount \cup DOMAIN stats[p].FromSize
                 \cup {e.From : e \in BagToSet(emails[p])} :
            /\ MapGet(stats[p].FromCount, s) <= EmailsFrom(p, s)
            /\ ~UnitsInFlight(p) =>
                  /\ MapGet(stats[p].FromCount, s) = EmailsFrom(p, s)
                  /\ MapGet(stats[p].FromSize, s) = SizeFrom(p, s)

\* Two records of one sender have been counted and nothing is in flight.
C7_Witness ==
    \E p \in created :
        /\ ~UnitsInFlight(p)
        /\ \E s \in DOMAIN stats[p].FromCount :
              /\ stats[p].FromCount[s] = 2
              /\ EmailsFrom(p, s) = 2
              /\ stats[p].FromSize[s] = Message(1).SizeEstimate + Message(3).SizeEstimate

\* C8: a failed detail fetch ends that unit alone. The step changes nothing
\* else; the loop passes the barrier only with every unit of the page done or
\* failed, every done unit's record collected; and the loop leaves the running
\* state only after a listing error or after the last page.
C8_Inv ==
    \A l \in Runs :
        LET lp == loops[l] IN
        lp.pc # "none" =>
            /\ lp.pc = "total" =>
                  \A i \in 1..Len(lp.resp.Messages) :
                      lp.w[lp.resp.Messages[i]] \in {"done", "failed"}
            /\ \A m \in Msgs :
                  lp.w[m] = "done" => BagIn(MetadataOf[m], emails[lp.proc])
            /\ lp.pc \in {"clear", "log", "done"} =>
                  \/ ListFailed(lp)
                  \/ /\ Len(lp.calls) = NumPages
                     /\ \A m \in Msgs : lp.w[m] \in {"done", "failed"}
            /\ LoopActive(lp) => isProcessing[lp.proc]

C8_Step ==
    \A l \in Runs : \A m \in Msgs :
        (loops[l].w[m] = "fetch" /\ loops'[l].w[m] = "failed") =>
            /\ loops' = [loops EXCEPT ![l].w[m] = "failed"]
            /\ UNCHANGED <<processors, created, isProcessing, emails, stats, reqs>>

C8_FetchFailureIsolated == []C8_Inv /\ [][C8_Step]_vars

\* A run that ended by exhaustion although the fetch of message 1 failed:
\* its page neighbour and the later page were aggregated.
C8_Witness ==
    \E l \in Runs :
        /\ loops[l].pc = "done"
        /\ ~ListFailed(loops[l])
        /\ loops[l].w[1] = "failed"
        /\ \A m \in Msgs \ {1} : loops[l].w[m] = "done"
        /\ Len(loops[l].calls) = NumPages

\* C9: a failed listing request is the goroutine's last: it goes on to clear
\* isProcessing, and the failing step leaves the statistics and the collection
\* as they were.
C9_Inv ==
    \A l \in Runs :
        LET lp == loops[l] IN
        ListFailed(lp) =>
            /\ lp.pc \in {"clear", "log", "done"}
            /\ lp.calls[Len(lp.calls)].next = -1
            /\ \A i \in 1..(Len(lp.calls) - 1) : lp.calls[i].next # -1
            /\ InFlight(lp) = {}
            /\ (lp.pc \in {"log", "done"} /\ ActiveLoops(lp.proc) = {})
                  => ~isProcessing[lp.proc]

C9_Step ==
    \A l \in Runs :
        /\ (~ListFailed(loops[l]) /\ ListFailed(loops'[l])) =>
              /\ UNCHANGED <<stats, emails, isProcessing>>
              /\ loops'[l].pc = "clear"
        /\ (ListFailed(loops[l]) /\ loops[l].pc = "clear" /\ loops'[l].pc # "clear") =>
              /\ ~isProcessing'[loops[l].proc]
              /\ UNCHANGED <<stats, emails>>

C9_ListingFailureAborts == []C9_Inv /\ [][C9_Step]_vars

\* The second listing request failed after the first page was aggregated; the
\* run is over and the first page's statistics are still there.
C9_Witness ==
    \E l \in Runs :
        /\ loops[l].pc = "done"
        /\ Len(loops[l].calls) = 2
        /\ ListFailed(loops[l])
        /\ ~isProcessing[loops[l].proc]
        /\ stats[loops[l].proc].TotalEmails = Len(PageMessages(0))
        /\ Recorded(loops[l].proc) = Len(PageMessages(0))

\* C10: a listing request is issued only when no unit of the goroutine is in
\* flight; the first request carries the empty token and each later one the
\* NextPageToken of the response before it.
C10_Inv ==
    \A l \in Runs :
        \A i \in 1..Len(loops[l].calls) :
            loops[l].calls[i].token =
                IF i = 1 THEN 0 ELSE loops[l].calls[i - 1].next

C10_Step ==
    \A l \in Runs :
        Len(loops'[l].calls) > Len(loops[l].calls) =>
            /\ InFlight(loops[l]) = {}
            /\ loops[l].pc # "none" =>
                  \A m \in Msgs : loops'[l].w[m] # loops[l].w[m] => loops[l].w[m] = "none"

C10_PagesInCursorOrder == []C10_Inv /\ [][C10_Step]_vars

\* The second page has been requested with the first page's cursor.
C10_Witness ==
    \E l \in Runs :
        /\ loops[l].pc = "wait"
        /\ Len(loops[l].calls) = 2
        /\ loops[l].calls[2].token = ListMessages(0).NextPageToken
        /\ loops[l].calls[2].token # 0
        /\ \A i \in 1..Len(PageMessages(0)) :
              loops[l].w[PageMessages(0)[i]] \in {"done", "failed"}

----------------------------------------------------------------------------
(* C11..C20                                                                *)

\* The last listing response of the goroutine carried an empty NextPageToken.
LastPageListed(lp) ==
    /\ Len(lp.calls) > 0
    /\ lp.calls[Len(lp.calls)].next = 0

\* C11: after a response with an empty NextPageToken the goroutine issues no
\* further listing request, gets past the barrier only with every unit of that
\* page finished, and then clears isProcessing.
C11_Inv ==
    \A l \in Runs :
        LET lp == loops[l] IN
        LastPageListed(lp) =>
            /\ lp.pc \in {"wait", "total", "clear", "log", "done"}
            /\ lp.pc \in {"total", "clear", "log", "done"} =>
                  \A i \in 1..Len(lp.resp.Messages) :
                      lp.w[lp.resp.Messages[i]] \in {"done", "failed"}
            /\ lp.pc \in {"clear", "log", "done"} =>
                  stats[lp.proc].TotalEmails >= Len(lp.resp.Messages)
            /\ (lp.pc \in {"log", "done"} /\ ActiveLoops(lp.proc) = {})
                  => ~isProcessing[lp.proc]

C11_Step ==
    \A l \in Runs :
        /\ LastPageListed(loops[l]) => loops'[l].calls = loops[l].calls
        /\ (LastPageListed(loops[l]) /\ loops[l].pc = "clear" /\ loops'[l].pc # "clear")
              => ~isProcessing'[loops[l].proc]

C11_EmptyTokenEndsRun == []C11_Inv /\ [][C11_Step]_vars

\* A run over the whole mailbox has ended by exhaustion.
C11_Witness ==
    \E l \in Runs :
        /\ loops[l].pc = "done"
        /\ LastPageListed(loops[l])
        /\ Len(loops[l].calls) = NumPages
        /\ \A m \in Msgs : loops[l].w[m] = "done"
        /\ ~isProcessing[loops[l].proc]

\* C12: a start request answered after the identity's run ended through a
\* listing error has begun a new run of that processor.
C12_RestartAfterListingFailure ==
    \A r \in Reqs :
        (reqs[r].pc = "done" /\ reqs[r].afterFailed)
            => Cardinality(LoopsOf(reqs[r].proc)) >= 2
\* The recipient addresses of a metadata record, as a set.
Recipients(md) == {md.To[i] : i \in 1..Len(md.To)}

\* C18: ToCount[a] is the number of recorded messages that name a among their
\* recipients, however often each of them names it.
C18_OneIncrementPerDistinctRecipient ==
    \A p \in created :
        \A a \in UNION {Recipients(MetadataOf[m]) : m \in Msgs} :
            MapGet(stats[p].ToCount, a) =
                Cardinality({x \in Units(p, "done") : a \in Recipients(MetadataOf[x[2]])})

----------------------------------------------------------------------------
(* processMessage applied to one arbitrary fetched message: the header     *)
(* values are drawn from bounded sets instead of the fixed mailbox.        *)

MaxLen == 3
MaxDay == 1

\* The characters of the drawn header values.
Chars == {"<", ">", "a", " "}

Strings == UNION {[1..k -> Chars] : k \in 0..MaxLen}

Layouts == {"RFC1123Z", "RFC1123", "D1Z", "D1ZMST", "bad"}

\* The Date headers of the drawn message: none, or one value.
DateHeaders ==
    {<<>>} \cup {<<[Name |-> "Date", Value |-> [layout |-> f, day |-> d]]>> :
                    f \in Layouts, d \in 0..MaxDay}

\* gmail.Message with an arbitrary From value and an arbitrary Date header.
RawMessage(from, date) ==
    [Id |-> 1,
     SizeEstimate |-> 1,
     Payload |-> [IsNil |-> FALSE,
                  Headers |-> <<[Name |-> "From", Value |-> from],
                                [Name |-> "To", Value |-> <<"y">>]>> \o date]]

InitExtract ==
    /\ processors = EmptyMap
    /\ created = {}
    /\ isProcessing = [p \in Procs |-> FALSE]
    /\ emails = [p \in Procs |-> EmptyBag]
    /\ stats = [p \in Procs |-> NewEmailStats]
    /\ loops = [l \in Runs |-> NoLoop]
    /\ reqs = [r \in Reqs |-> [pc |-> "idle", tok |-> <<>>, proc |-> NoProc,
                               afterFailed |-> FALSE, resp |-> NoResp]]
    /\ locks = Unlocked
    /\ \E from \in Strings, date \in DateHeaders :
          fn = [pc |-> "fetched", msg |-> RawMessage(from, date)]

\* processMessage, lines 200-242: the metadata of the fetched message.
\* msg.Payload.Headers on a nil Payload is a nil pointer dereference: the
\* goroutine panics.
ExtractMetadata ==
    /\ fn.pc = "fetched"
    /\ fn' = IF fn.msg.Payload.IsNil
             THEN [pc |-> "panic", msg |-> fn.msg]
             ELSE [pc |-> "extracted", msg |-> fn.msg, md |-> Metadata(fn.msg)]
    /\ UNCHANGED <<processors, created, isProcessing, emails, stats, loops, reqs, locks>>

\* processMessage, lines 249-269: the record, into fresh statistics.
RecordMetadata ==
    /\ fn.pc = "extracted"
    /\ fn' = [pc |-> "recorded", msg |-> fn.msg, md |-> fn.md,
              st |-> RecordStats(NewEmailStats, fn.md)]
    /\ UNCHANGED <<processors, created, isProcessing, emails, stats, loops, reqs, locks>>

NextExtract == ExtractMetadata \/ RecordMetadata

SpecExtract == InitExtract /\ [][NextExtract]_vars

\* The header values of the drawn message.
FnFrom == fn.msg.Payload.Headers[1].Value

FnDate == SubSeq(fn.msg.Payload.Headers, 3, Len(fn.msg.Payload.Headers))

\* C19: a message whose Date header parses under at least one accepted format
\* increments exactly one calendar-day counter, the day of the parsed
\* timestamp; a message without a Date header, or whose Date header parses
\* under no format, increments no day counter but still increments its sender
\* count, its sender size and its recipient counts.
C19_ParsedDateCountsOneDay ==
    fn.pc = "recorded" =>
        IF /\ FnDate # <<>>
           /\ \E i \in 1..Len(DateFormats) : ParseOK(DateFormats[i], FnDate[1].Value)
        THEN fn.st.DateCount = (FnDate[1].Value.day :> 1)
        ELSE /\ fn.st.DateCount = EmptyMap
             /\ fn.st.FromCount = (fn.md.From :> 1)
             /\ fn.st.FromSize = (fn.md.From :> fn.msg.SizeEstimate)
             /\ fn.st.ToCount = (<<"y">> :> 1)

\* C20: extractEmailAddress returns the substring strictly between the first
\* '<' and the last '>' when both characters are present, and in every other
\* case the entire value with surrounding whitespace trimmed.
C20_AddressBetweenBracketsOrTrimmed ==
    fn.pc = "extracted" =>
        LET h == FnFrom
            idx == {i \in 1..Len(h) : h[i] # " "}
            lo == CHOOSE i \in idx : \A j \in idx : i <= j
            hi == CHOOSE i \in idx : \A j \in idx : j <= i
            trimmed == IF idx = {} THEN <<>> ELSE SubSeq(h, lo, hi)
        IN fn.md.From =
              IF FirstIndex(h, "<") # 0 /\ LastIndex(h, ">") # 0
              THEN SubSeq(h, FirstIndex(h, "<") + 1, LastIndex(h, ">") - 1)
              ELSE trimmed

----------------------------------------------------------------------------
(* GetTopSenders applied to arbitrary statistics: the recorded metadata,   *)
(* n and the iteration order of the FromCount map are drawn.               *)

MaxMails == 4
MaxN == 4

\* The sender addresses of the drawn records.
SenderNames == {<<"a">>, <<"b">>, <<"c">>}

\* The i-th recorded metadata: sender from[i], size estimate i.
RecordedMetadata(from) ==
    [i \in 1..Len(from) |->
        [ID |-> i, From |-> from[i], To |-> <<>>, Date |-> 0, SizeEstimate |-> i]]

\* The statistics after the records mds have been recorded, in order.
RECURSIVE RecordAll(_, _)
RecordAll(st, mds) ==
    IF mds = <<>> THEN st ELSE RecordAll(RecordStats(st, Head(mds)), Tail(mds))

\* The orders in which a range over a Go map with key set S can visit it.
Orders(S) ==
    {o \in [1..Cardinality(S) -> S] : \A x \in S : \E i \in DOMAIN o : o[i] = x}

\* for email, count := range p.stats.FromCount { senders = append(...) }
RangeSenders(st, order) ==
    [i \in 1..Len(order) |->
        [Email |-> order[i], Count |-> st.FromCount[order[i]],
         Size |-> MapGet(st.FromSize, order[i])]]

\* Faulty variant of Less: sorts ascending.
Less_Ascending(a, b) == a.Count > b.Count

\* senders[i].Count < senders[j].Count
Less(a, b) == a.Count < b.Count

\* The nested loops of the sort, from position (i, j) (1-based) on.
RECURSIVE SortFrom(_, _, _)
SortFrom(senders, i, j) ==
    IF i > Len(senders) THEN senders
    ELSE IF j > Len(senders) THEN SortFrom(senders, i + 1, i + 2)
    ELSE SortFrom(IF Less(senders[i], senders[j])
                  THEN [senders EXCEPT ![i] = senders[j], ![j] = senders[i]]
                  ELSE senders,
                  i, j + 1)

\* Faulty variant of TakeTop: no truncation.
TakeTop_All(senders, n) == senders

\* if n > len(senders) { n = len(senders) }; senders = senders[:n]
TakeTop(senders, n) ==
    SubSeq(senders, 1, IF n > Len(senders) THEN Len(senders) ELSE n)

\* GetTopSenders(n) on statistics st, the map being visited in the given order.
GetTopSenders(st, n, order) ==
    LET top == TakeTop(SortFrom(RangeSenders(st, order), 1, 2), n)
    IN [i \in 1..Len(top) |->
           [email |-> top[i].Email, count |-> top[i].Count, size |-> top[i].Size]]

InitTopSenders ==
    /\ processors = EmptyMap
    /\ created = {}
    /\ isProcessing = [p \in Procs |-> FALSE]
    /\ emails = [p \in Procs |-> EmptyBag]
    /\ stats = [p \in Procs |-> NewEmailStats]
    /\ loops = [l \in Runs |-> NoLoop]
    /\ reqs = [r \in Reqs |-> [pc |-> "idle", tok |-> <<>>, proc |-> NoProc,
                               afterFailed |-> FALSE, resp |-> NoResp]]
    /\ locks = Unlocked
    /\ \E k \in 0..MaxMails : \E from \in [1..k -> SenderNames] :
          fn = [pc |-> "stats", mds |-> RecordedMetadata(from),
                st |-> RecordAll(NewEmailStats, RecordedMetadata(from))]

\* One call of GetTopSenders(n), n >= 0.
CallGetTopSenders ==
    /\ fn.pc = "stats"
    /\ \E n \in 0..MaxN : \E order \in Orders(DOMAIN fn.st.FromCount) :
          fn' = [pc |-> "top", mds |-> fn.mds, st |-> fn.st, n |-> n,
                 senders |-> RangeSenders(fn.st, order),
                 result |-> GetTopSenders(fn.st, n, order)]
    /\ UNCHANGED <<processors, created, isProcessing, emails, stats, loops, reqs, locks>>

NextTopSenders == CallGetTopSenders

SpecTopSenders == InitTopSenders /\ [][NextTopSenders]_vars

\* The recorded metadata whose sender is s.
MetadataFrom(mds, s) == {mds[i] : i \in {j \in 1..Len(mds) : mds[j].From = s}}

\* C16: for every n >= 0 and every statistics state, GetTopSenders(n) returns
\* exactly min(n, number of distinct senders) entries, each for a distinct
\* sender, and each returned count and byte total equals the value computed
\* from all recorded metadata of that sender.
C16_TopSendersSizeAndCounts ==
    fn.pc = "top" =>
        LET distinct == {fn.mds[i].From : i \in 1..Len(fn.mds)}
            res == fn.result
        IN /\ Len(res) = IF fn.n < Cardinality(distinct) THEN fn.n
                         ELSE Cardinality(distinct)
           /\ \A i, j \in 1..Len(res) : res[i].email = res[j].email => i = j
           /\ \A i \in 1..Len(res) :
                 /\ res[i].count = Cardinality(MetadataFrom(fn.mds, res[i].email))
                 /\ res[i].size = SizeSum(SetToBag(MetadataFrom(fn.mds, res[i].email)),
                                          MetadataFrom(fn.mds, res[i].email))

\* A call that truncates: three distinct senders, two entries returned.
C16_Witness ==
    /\ fn.pc = "top"
    /\ fn.n = 2
    /\ Len(fn.senders) = 3
    /\ Len(fn.result) = 2
    /\ fn.result[1].count = 2
    /\ fn.result[1].size > 2

\* C17: the result of GetTopSenders(n) is ordered by count, non-increasing, and
\* no sender left out of it has a count strictly greater than a sender in it.
C17_TopSendersHighestFirst ==
    fn.pc = "top" =>
        LET res == fn.result
            included == {res[i].email : i \in 1..Len(res)}
        IN /\ \A i \in 1..(Len(res) - 1) : res[i].count >= res[i + 1].count
           /\ \A s \in DOMAIN fn.st.FromCount \ included :
                 \A i \in 1..Len(res) :
                    Cardinality(MetadataFrom(fn.mds, s)) <= res[i].count

\* A call where the map is visited in ascending order of count, the most
\* frequent sender last, and a least frequent sender is dropped.
C17_Witness ==
    /\ fn.pc = "top"
    /\ fn.n = 2
    /\ Len(fn.senders) = 3
    /\ fn.senders[1].Count <= fn.senders[2].Count
    /\ fn.senders[2].Count < fn.senders[3].Count
    /\ fn.result[1].email = fn.senders[3].Email
    /\ fn.result[2].email = fn.senders[2].Email

----------------------------------------------------------------------------
(* The locks of one InboxProcessor, statement by statement: every Lock,    *)
(* RLock and Unlock is a step of its own; one run is under way and the     *)
(* callers read it through GetProgress, GetTopSenders and GetStats.        *)

TopN == 20

\* The goroutines that take locks.
LoopG(l) == [kind |-> "loop", id |-> l, m |-> 0]

WorkerG(l, m) == [kind |-> "worker", id |-> l, m |-> m]

CallerG(r) == [kind |-> "caller", id |-> r, m |-> 0]

\* p.mu and p.stats.mu
Mu(p) == <<"mu", p>>

StatsMu(p) == <<"stats", p>>

\* Lock() returns only when nobody holds the mutex.
CanLock(k) == locks[k] = {}

\* Faulty variant of CanRLock: a reader does not wait for the writer.
CanRLock_NoWait(k) == TRUE

\* RLock() returns only when no writer holds the mutex.
CanRLock(k) == \A h \in locks[k] : h.mode = "r"

\* Faulty variant of Acquire: the statistics lock is taken together with
\* the run lock of the same processor.
Acquire_Nested(k, g, mode) ==
    [x \in Locks |->
        IF x = k \/ (k[1] = "stats" /\ x = <<"mu", k[2]>>)
        THEN locks[x] \cup {[g |-> g, mode |-> mode]}
        ELSE locks[x]]

\* Lock() / RLock() has returned to goroutine g.
Acquire(k, g, mode) == [locks EXCEPT ![k] = @ \cup {[g |-> g, mode |-> mode]}]

\* Faulty variant of Release: the mutex stays held.
Release_Forget(k, g) == locks

\* Unlock() / RUnlock()
Release(k, g) == [locks EXCEPT ![k] = {h \in @ : h.g # g}]

Holds(g, k) == \E h \in locks[k] : h.g = g

\* The state after NewInboxProcessor and a first StartProcessing: the flag is
\* set and the processInbox goroutine is about to list the first page.
InitLocks ==
    /\ processors = EmptyMap
    /\ created = {1}
    /\ isProcessing = [p \in Procs |-> p = 1]
    /\ emails = [p \in Procs |-> EmptyBag]
    /\ stats = [p \in Procs |-> NewEmailStats]
    /\ loops = [l \in Runs |-> IF l = 1 THEN [NoLoop EXCEPT !.pc = "list", !.proc = 1]
                               ELSE NoLoop]
    /\ reqs = [r \in Reqs |-> [pc |-> "idle", tok |-> <<>>, proc |-> 1,
                               afterFailed |-> FALSE, resp |-> NoResp]]
    /\ locks = Unlocked
    /\ fn = NoFn

\* p.mu.Lock() of processMessage
EmailsLock(l, m) ==
    /\ loops[l].w[m] = "append"
    /\ CanLock(Mu(loops[l].proc))
    /\ locks' = Acquire(Mu(loops[l].proc), WorkerG(l, m), "w")
    /\ loops' = [loops EXCEPT ![l].w[m] = "appending"]
    /\ UNCHANGED <<fn, processors, created, isProcessing, emails, stats, reqs>>

\* p.emails = append(p.emails, metadata); p.mu.Unlock()
EmailsUnlock(l, m) ==
    /\ loops[l].w[m] = "appending"
    /\ emails' = [emails EXCEPT ![loops[l].proc] = @ (+) SetToBag({MetadataOf[m]})]
    /\ locks' = Release(Mu(loops[l].proc), WorkerG(l, m))
    /\ loops' = [loops EXCEPT ![l].w[m] = "record"]
    /\ UNCHANGED <<fn, processors, created, isProcessing, stats, reqs>>

\* p.stats.mu.Lock() of processMessage
StatsLock(l, m) ==
    /\ loops[l].w[m] = "record"
    /\ CanLock(StatsMu(loops[l].proc))
    /\ locks' = Acquire(StatsMu(loops[l].proc), WorkerG(l, m), "w")
    /\ loops' = [loops EXCEPT ![l].w[m] = "counting"]
    /\ UNCHANGED <<fn, processors, created, isProcessing, emails, stats, reqs>>

\* p.stats.FromCount[metadata.From]++
StatsFromCount(l, m) ==
    /\ loops[l].w[m] = "counting"
    /\ stats' = [stats EXCEPT ![loops[l].proc] = RecordFromCount(@, MetadataOf[m])]
    /\ loops' = [loops EXCEPT ![l].w[m] = "sizing"]
    /\ UNCHANGED <<fn, locks, processors, created, isProcessing, emails, reqs>>

\* FromSize, ToCount, DateCount; p.stats.mu.Unlock(); wg.Done()
StatsUnlock(l, m) ==
    /\ loops[l].w[m] = "sizing"
    /\ stats' = [stats EXCEPT ![loops[l].proc] = RecordRest(@, MetadataOf[m])]
    /\ locks' = Release(StatsMu(loops[l].proc), WorkerG(l, m))
    /\ loops' = [loops EXCEPT ![l].w[m] = "done"]
    /\ UNCHANGED <<fn, processors, created, isProcessing, emails, reqs>>

\* p.stats.mu.Lock() of processInbox
TotalLock(l) ==
    /\ loops[l].pc = "total"
    /\ CanLock(StatsMu(loops[l].proc))
    /\ locks' = Acquire(StatsMu(loops[l].proc), LoopG(l), "w")
    /\ loops' = [loops EXCEPT ![l].pc = "totaling"]
    /\ UNCHANGED <<fn, processors, created, isProcessing, emails, stats, reqs>>

\* p.stats.TotalEmails += len(resp.Messages); p.stats.mu.Unlock(); token test
TotalUnlock(l) ==
    /\ loops[l].pc = "totaling"
    /\ stats' = [stats EXCEPT ![loops[l].proc].TotalEmails =
                                 PageTotal(@, loops[l].resp.Messages)]
    /\ locks' = Release(StatsMu(loops[l].proc), LoopG(l))
    /\ loops' = IF LastPage(loops[l].resp)
                THEN [loops EXCEPT ![l].pc = "clear"]
                ELSE [loops EXCEPT ![l].pc = "list",
                                   ![l].pageToken = loops[l].resp.NextPageToken]
    /\ UNCHANGED <<fn, processors, created, isProcessing, emails, reqs>>

\* p.mu.Lock() of processInbox
ClearLock(l) ==
    /\ loops[l].pc = "clear"
    /\ CanLock(Mu(loops[l].proc))
    /\ locks' = Acquire(Mu(loops[l].proc), LoopG(l), "w")
    /\ loops' = [loops EXCEPT ![l].pc = "clearing"]
    /\ UNCHANGED <<fn, processors, created, isProcessing, emails, stats, reqs>>

\* p.isProcessing = false; p.mu.Unlock()
ClearUnlock(l) ==
    /\ loops[l].pc = "clearing"
    /\ isProcessing' = [isProcessing EXCEPT ![loops[l].proc] = FALSE]
    /\ locks' = Release(Mu(loops[l].proc), LoopG(l))
    /\ loops' = [loops EXCEPT ![l].pc = "log"]
    /\ UNCHANGED <<fn, processors, created, emails, stats, reqs>>

\* GetProgress: p.mu.RLock()
ProgressRLock(r) ==
    /\ reqs[r].pc = "idle"
    /\ CanRLock(Mu(reqs[r].proc))
    /\ locks' = Acquire(Mu(reqs[r].proc), CallerG(r), "r")
    /\ reqs' = [reqs EXCEPT ![r].pc = "progress_read"]
    /\ UNCHANGED <<fn, processors, created, isProcessing, emails, stats, loops>>

\* GetProgress: the reads of p.stats.TotalEmails and p.isProcessing, then the
\* deferred RUnlock; the map returned goes to the encoder.
ProgressReturn(r) ==
    /\ reqs[r].pc = "progress_read"
    /\ locks' = Release(Mu(reqs[r].proc), CallerG(r))
    /\ reqs' = [reqs EXCEPT ![r].pc = "idle"]
    /\ UNCHANGED <<fn, processors, created, isProcessing, emails, stats, loops>>

\* GetTopSenders: p.stats.mu.RLock()
TopRLock(r) ==
    /\ reqs[r].pc = "idle"
    /\ CanRLock(StatsMu(reqs[r].proc))
    /\ locks' = Acquire(StatsMu(reqs[r].proc), CallerG(r), "r")
    /\ reqs' = [reqs EXCEPT ![r].pc = "top_range"]
    /\ UNCHANGED <<fn, processors, created, isProcessing, emails, stats, loops>>

\* GetTopSenders: the range over FromCount that builds the senders slice
TopRange(r) ==
    /\ reqs[r].pc = "top_range"
    /\ \E order \in Orders(DOMAIN stats[reqs[r].proc].FromCount) :
          reqs' = [reqs EXCEPT
             ![r].pc = "top_sort",
             ![r].resp = [status |-> "senders",
                          senders |-> RangeSenders(stats[reqs[r].proc], order)]]
    /\ UNCHANGED <<fn, locks, processors, created, isProcessing, emails, stats, loops>>

\* The entries GetTopSenders(20) returns from the senders slice it has built.
TopResult(r) == TakeTop(SortFrom(reqs[r].resp.senders, 1, 2), TopN)

\* GetTopSenders: sort, truncate, return (deferred RUnlock)
TopReturn(r) ==
    /\ reqs[r].pc = "top_sort"
    /\ locks' = Release(StatsMu(reqs[r].proc), CallerG(r))
    /\ reqs' = [reqs EXCEPT ![r].pc = "idle", ![r].resp = NoResp]
    /\ UNCHANGED <<fn, processors, created, isProcessing, emails, stats, loops>>

\* HandleGetEmailStats: GetStats returns the *EmailStats and the encoder
\* starts to read its exported fields; no lock is taken.
EncodeStats(r) ==
    /\ reqs[r].pc = "idle"
    /\ reqs' = [reqs EXCEPT ![r].pc = "encoding"]
    /\ UNCHANGED <<fn, locks, processors, created, isProcessing, emails, stats, loops>>

\* The encoder has read the five counters.
EncodeDone(r) ==
    /\ reqs[r].pc = "encoding"
    /\ reqs' = [reqs EXCEPT ![r].pc = "idle"]
    /\ UNCHANGED <<fn, locks, processors, created, isProcessing, emails, stats, loops>>

LoopLocksNext ==
    \E l \in Runs :
        \/ ListPage(l)
        \/ \E m \in Msgs : FetchMessage(l, m)
        \/ \E m \in Msgs : EmailsLock(l, m)
        \/ \E m \in Msgs : EmailsUnlock(l, m)
        \/ \E m \in Msgs : StatsLock(l, m)
        \/ \E m \in Msgs : StatsFromCount(l, m)
        \/ \E m \in Msgs : StatsUnlock(l, m)
        \/ WaitPage(l)
        \/ TotalLock(l)
        \/ TotalUnlock(l)
        \/ ClearLock(l)
        \/ ClearUnlock(l)
        \/ LogComplete(l)

CallerLocksNext ==
    \E r \in Reqs :
        \/ ProgressRLock(r)
        \/ ProgressReturn(r)
        \/ TopRLock(r)
        \/ TopRange(r)
        \/ TopReturn(r)
        \/ EncodeStats(r)
        \/ EncodeDone(r)

NextLocks == LoopLocksNext \/ CallerLocksNext

SpecLocks == InitLocks /\ [][NextLocks]_vars

\* The goroutines of processInbox with a remote call outstanding.
InRemoteCall ==
    {LoopG(l) : l \in {x \in Runs : loops[x].pc = "list"}}
    \cup {WorkerG(x[1], x[2]) : x \in {y \in Runs \X Msgs : loops[y[1]].w[y[2]] = "fetch"}}

\* The goroutines of processInbox inside a locked section: between a Lock
\* and its Unlock, with local statements only in between.
InSection ==
    {LoopG(l) : l \in {x \in Runs : loops[x].pc \in {"totaling", "clearing"}}}
    \cup {WorkerG(x[1], x[2]) :
             x \in {y \in Runs \X Msgs :
                      loops[y[1]].w[y[2]] \in {"appending", "counting", "sizing"}}}

\* C13: neither the run lock nor the statistics lock is held by the ingestion
\* loop or by a worker while its remote call (listing or message detail) is
\* outstanding, and whenever no goroutine of the run is inside a locked
\* section GetProgress can take the run lock: it never waits for a fetch.
C13_NoLockAcrossRemoteCall ==
    /\ \A g \in InRemoteCall : \A k \in Locks : ~Holds(g, k)
    /\ \A k \in Locks : \A h \in locks[k] :
          h.g.kind \in {"loop", "worker"} => h.g \in InSection
    /\ \A p \in created : InSection = {} => CanRLock(Mu(p))

\* GetProgress holds the run lock while a listing or a fetch is outstanding
\* and a message of the page has already been recorded.
C13_Witness ==
    \E r \in Reqs :
        /\ reqs[r].pc = "progress_read"
        /\ Holds(CallerG(r), Mu(reqs[r].proc))
        /\ InRemoteCall # {}
        /\ Units(reqs[r].proc, "done") # {}

\* The counters a caller is reading without holding the statistics lock.
UnlockedReads(r) ==
    IF Holds(CallerG(r), StatsMu(reqs[r].proc)) THEN {}
    ELSE CASE reqs[r].pc = "progress_read" -> {"TotalEmails"}
           [] reqs[r].pc = "encoding" ->
                 {"FromCount", "ToCount", "FromSize", "DateCount", "TotalEmails"}
           [] OTHER -> {}

\* The counters of p a goroutine inside a statistics section is writing.
SectionWrites(p) ==
    UNION {IF loops[l].pc = "totaling" THEN {"TotalEmails"} ELSE {} : l \in LoopsOf(p)}
    \cup UNION {{"FromCount"} : x \in Units(p, "counting")}
    \cup UNION {{"FromSize", "ToCount", "DateCount"} : x \in Units(p, "sizing")}

\* C14: every access to the statistics counters is made under the statistics
\* lock, so no read by GetProgress or by the serialization of GetStats is
\* concurrent with a write of the same counter.
C14_NoReadDuringCounterWrite ==
    \A r \in Reqs : UnlockedReads(r) \cap SectionWrites(reqs[r].proc) = {}

\* The records of p with sender s whose statistics section is complete.
DoneFrom(p, s) ==
    {MetadataOf[x[2]] : x \in {y \in Units(p, "done") : MetadataOf[y[2]].From = s}}

\* C15: the counter mutations of one record operation happen inside a single
\* exclusive section, and every entry GetTopSenders returns pairs a sender's
\* count with the byte total of the same set of recorded messages.
C15_TopSendersSeesWholeRecords ==
    /\ \A p \in created :
          \A x \in Units(p, "counting") \cup Units(p, "sizing") :
             locks[StatsMu(p)] = {[g |-> WorkerG(x[1], x[2]), mode |-> "w"]}
    /\ \A r \in Reqs :
          reqs[r].pc = "top_sort" =>
             \A i \in 1..Len(TopResult(r)) :
                LET e == TopResult(r)[i]
                    D == DoneFrom(reqs[r].proc, e.Email)
                IN /\ e.Count = Cardinality(D)
                   /\ e.Size = SizeSum(SetToBag(D), D)

\* GetTopSenders has built a non-empty slice while a worker waits for the
\* statistics lock.
C15_Witness ==
    \E r \in Reqs :
        /\ reqs[r].pc = "top_sort"
        /\ Len(reqs[r].resp.senders) > 0
        /\ Units(reqs[r].proc, "record") # {}

----------------------------------------------------------------------------
(* C21..C30                                                                *)

\* Every entry of map m is present in m2 with a value at least as large.
MapGrows(m, m2) == \A k \in DOMAIN m : k \in DOMAIN m2 /\ m2[k] >= m[k]

\* C22: statistics are never rolled back: in every step each entry of
\* FromCount, FromSize, ToCount and DateCount and the TotalEmails counter is
\* non-decreasing, and no key once present is removed.
C22_Step ==
    \A p \in Procs :
        /\ MapGrows(stats[p].FromCount, stats'[p].FromCount)
        /\ MapGrows(stats[p].FromSize, stats'[p].FromSize)
        /\ MapGrows(stats[p].ToCount, stats'[p].ToCount)
        /\ MapGrows(stats[p].DateCount, stats'[p].DateCount)
        /\ stats'[p].TotalEmails >= stats[p].TotalEmails

C22_StatsNeverRolledBack == [][C22_Step]_vars

\* A second run has added to the counters of the first.
C22_Witness ==
    \E p \in created :
        /\ stats[p].TotalEmails = 2 * MaxMsgs
        /\ MapGet(stats[p].FromCount, <<"a">>) = 2 * Cardinality({m \in Msgs : m % 2 = 1})
        /\ MapGet(stats[p].FromSize, <<"b">>) > 2

\* C27: while isProcessing is false on a processor none of its units is in
\* flight and none of its goroutines is in the loop, and its collection and
\* statistics stay unchanged until a StartProcessing sets the flag again; the
\* step that clears the flag is taken with every unit joined.
C27_Inv ==
    \A p \in created :
        ~isProcessing[p] => ~UnitsInFlight(p) /\ ActiveLoops(p) = {}

C27_Step ==
    \A p \in created :
        /\ (~isProcessing[p] /\ ~isProcessing'[p]) =>
              stats'[p] = stats[p] /\ emails'[p] = emails[p]
        /\ (isProcessing[p] /\ ~isProcessing'[p]) => ~UnitsInFlight(p)

C27_IdleProcessorIsFrozen == []C27_Inv /\ [][C27_Step]_vars

\* The flag is clear, the final log line pending, every message recorded.
C27_Witness ==
    \E l \in Runs :
        /\ loops[l].pc = "log"
        /\ ~isProcessing[loops[l].proc]
        /\ \A m \in Msgs : loops[l].w[m] = "done"
        /\ stats[loops[l].proc].TotalEmails = MaxMsgs
        /\ BagCardinality(emails[loops[l].proc]) = MaxMsgs

\* The run of l listed every page and recorded every message.
FullRun(l) ==
    /\ loops[l].pc \in {"log", "done"}
    /\ ~ListFailed(loops[l])
    /\ \A m \in Msgs : loops[l].w[m] = "done"

\* C28: a run started after the previous one has ended lists again from the
\* empty cursor and adds to the same collection and statistics: after two
\* complete runs every message of the mailbox is counted twice in FromCount,
\* FromSize, ToCount, DateCount and TotalEmails.
C28_SecondRunCountsTwice ==
    /\ \A l \in Runs : Len(loops[l].calls) > 0 => loops[l].calls[1].token = 0
    /\ \A p \in created :
          \A l1, l2 \in LoopsOf(p) :
             (l1 # l2 /\ FullRun(l1) /\ FullRun(l2) /\ Cardinality(LoopsOf(p)) = 2) =>
                /\ stats[p].TotalEmails = 2 * MaxMsgs
                /\ BagCardinality(emails[p]) = 2 * MaxMsgs
                /\ \A m \in Msgs :
                      LET md == MetadataOf[m]
                          same == {x \in Msgs : MetadataOf[x].From = md.From}
                      IN /\ MapGet(stats[p].FromCount, md.From) = 2 * Cardinality(same)
                         /\ MapGet(stats[p].FromSize, md.From) =
                               2 * SizeSum(SetToBag({MetadataOf[x] : x \in same}),
                                           {MetadataOf[x] : x \in same})
                         /\ ~IsZero(md.Date) =>
                               MapGet(stats[p].DateCount, md.Date) =
                                  2 * Cardinality({x \in Msgs : MetadataOf[x].Date = md.Date})
                         /\ \A i \in 1..Len(md.To) :
                               MapGet(stats[p].ToCount, md.To[i]) =
                                  2 * Cardinality({y \in Msgs \X (1..MaxMsgs) :
                                        /\ y[2] <= Len(MetadataOf[y[1]].To)
                                        /\ MetadataOf[y[1]].To[y[2]] = md.To[i]})

\* Two complete runs of one processor.
C28_Witness ==
    \E p \in created :
        /\ \E l1, l2 \in LoopsOf(p) : l1 # l2 /\ FullRun(l1) /\ FullRun(l2)
        /\ stats[p].TotalEmails = 2 * MaxMsgs
        /\ loops[2].calls[1].token = 0

\* The steps of the processInbox goroutine l and of its workers.
LoopStep(l) ==
    \/ ListPage(l)
    \/ \E m \in Msgs : FetchMessage(l, m)
    \/ \E m \in Msgs : AppendEmail(l, m)
    \/ \E m \in Msgs : UpdateStats(l, m)
    \/ WaitPage(l)
    \/ UpdateTotal(l)
    \/ ClearProcessing(l)
    \/ LogComplete(l)

\* One InboxProcessor instance, a first caller of StartProcessing and one
\* further caller.
InitRun ==
    /\ processors = EmptyMap
    /\ created = {1}
    /\ isProcessing = [p \in Procs |-> FALSE]
    /\ emails = [p \in Procs |-> EmptyBag]
    /\ stats = [p \in Procs |-> NewEmailStats]
    /\ loops = [l \in Runs |-> NoLoop]
    /\ reqs = [r \in Reqs |-> [pc |-> IF r <= 2 THEN "call" ELSE "done",
                               tok |-> <<>>, proc |-> 1,
                               afterFailed |-> FALSE, resp |-> NoResp]]
    /\ locks = Unlocked
    /\ fn = NoFn

\* Every remote call returns and the scheduler lets every goroutine run.
SpecFair == InitRun /\ [][NextProcessor]_vars /\ \A l \in Runs : WF_vars(LoopStep(l))

\* C26: if every remote call eventually returns and the listing has finitely
\* many pages, every run that was started eventually reaches
\* isProcessing = false, under fair scheduling of the loop and its workers.
C26_RunEventuallyEnds == \A p \in Procs : isProcessing[p] ~> ~isProcessing[p]

\* A run that ended after all its pages, one fetch having failed.
C26_Witness ==
    \E l \in Runs :
        /\ loops[l].pc = "log"
        /\ Len(loops[l].calls) = NumPages
        /\ ~ListFailed(loops[l])
        /\ \E m \in Msgs : loops[l].w[m] = "failed"
        /\ ~isProcessing[loops[l].proc]

\* The header lists of a fetched message in which each of From, To and Date
\* is present or absent.
HeaderLists ==
    {from \o to \o date :
        from \in {<<>>} \cup {<<[Name |-> "From", Value |-> v]>> : v \in Strings},
        to \in {<<>>, <<[Name |-> "To", Value |-> <<"y">>]>>},
        date \in DateHeaders}

\* The successfully fetched message records: any header list, or no payload.
FetchedMessages ==
    {[Id |-> 1, SizeEstimate |-> 1, Payload |-> [IsNil |-> FALSE, Headers |-> hs]] :
        hs \in HeaderLists}
    \cup {[Id |-> 1, SizeEstimate |-> 1, Payload |-> [IsNil |-> TRUE, Headers |-> <<>>]]}

InitPayload ==
    /\ processors = EmptyMap
    /\ created = {}
    /\ isProcessing = [p \in Procs |-> FALSE]
    /\ emails = [p \in Procs |-> EmptyBag]
    /\ stats = [p \in Procs |-> NewEmailStats]
    /\ loops = [l \in Runs |-> NoLoop]
    /\ reqs = [r \in Reqs |-> [pc |-> "idle", tok |-> <<>>, proc |-> NoProc,
                               afterFailed |-> FALSE, resp |-> NoResp]]
    /\ locks = Unlocked
    /\ \E msg \in FetchedMessages : fn = [pc |-> "fetched", msg |-> msg]

\* processMessage applied to an arbitrary successfully fetched message.
SpecPayload == InitPayload /\ [][NextExtract]_vars

\* The names of the headers the fetched message carries.
FnNames == {fn.msg.Payload.Headers[i].Name : i \in 1..Len(fn.msg.Payload.Headers)}

\* C24: metadata extraction never fails: for every successfully fetched
\* message, including one with an empty header list, a missing header or a
\* missing payload, processMessage completes and records a metadata value
\* whose fields for absent headers are at their default values.
C24_ExtractionNeverFails ==
    /\ fn.pc # "panic"
    /\ fn.pc \in {"extracted", "recorded"} =>
          /\ "From" \notin FnNames => fn.md.From = <<>>
          /\ "To" \notin FnNames => fn.md.To = <<>>
          /\ "Date" \notin FnNames => IsZero(fn.md.Date)

----------------------------------------------------------------------------
(* The four inbox endpoints as requests see them: each handler is taken    *)
(* as one step from the Authorization header to the response (the          *)
(* interleavings inside the start handler are the subject of Spec).        *)

\* An access token of KeyLen + 1 characters ending in c.
LongToken(c) == [i \in 1..(KeyLen + 1) |-> IF i <= KeyLen THEN "t" ELSE c]

\* The access tokens presented: two that agree on their first KeyLen
\* characters and one shorter than KeyLen.
AccessTokens == {LongToken("a"), LongToken("b"), <<"t", "t">>}

\* The Authorization header: absent, not a JSON token, or a token.
NoHeader == [kind |-> "none", AccessToken |-> <<>>]

AuthHeaders ==
    {NoHeader, [kind |-> "garbage", AccessToken |-> <<>>]}
    \cup {[kind |-> "token", AccessToken |-> t] : t \in AccessTokens}

\* Faulty variant of ParseToken: a missing header yields an empty token.
ParseToken_NoCheck(hdr) ==
    IF hdr.kind = "garbage" THEN [err |-> TRUE, AccessToken |-> <<>>]
    ELSE [err |-> FALSE, AccessToken |-> hdr.AccessToken]

\* ParseToken: an error for an empty header or for a value json.Unmarshal
\* rejects, else the token.
ParseToken(hdr) ==
    IF hdr.kind = "none" THEN [err |-> TRUE, AccessToken |-> <<>>]
    ELSE IF hdr.kind = "garbage" THEN [err |-> TRUE, AccessToken |-> <<>>]
    ELSE [err |-> FALSE, AccessToken |-> hdr.AccessToken]

\* token.AccessToken[:10] panics when the token has fewer than 10 bytes.
SlicePanics(tok) == Len(tok) < KeyLen

\* The response of a handler that did not reach a processor.
ErrorResp(status) == [NoResp EXCEPT !.status = status]

InitEndpoints ==
    /\ processors = EmptyMap
    /\ created = {}
    /\ isProcessing = [p \in Procs |-> FALSE]
    /\ emails = [p \in Procs |-> EmptyBag]
    /\ stats = [p \in Procs |-> NewEmailStats]
    /\ loops = [l \in Runs |-> NoLoop]
    /\ reqs = [r \in Reqs |-> [pc |-> "idle", tok |-> <<>>, proc |-> NoProc,
                               afterFailed |-> FALSE, resp |-> NoResp,
                               endpoint |-> "none", hdr |-> NoHeader]]
    /\ locks = Unlocked
    /\ fn = NoFn

\* The request r is answered by the given endpoint with resp.
Answer(r, endpoint, hdr, resp) ==
    reqs' = [reqs EXCEPT ![r].pc = "done", ![r].endpoint = endpoint, ![r].hdr = hdr,
                         ![r].tok = ParseToken(hdr).AccessToken,
                         ![r].proc = resp.proc, ![r].resp = resp]

\* What ParseToken, the userID slice and Registry.Get make of the header:
\* 401, a panic, 404, or the processor found.
Lookup(hdr) ==
    IF ParseToken(hdr).err THEN ErrorResp("401")
    ELSE IF SlicePanics(ParseToken(hdr).AccessToken) THEN ErrorResp("panic")
    ELSE IF UserID(ParseToken(hdr).AccessToken) \notin DOMAIN processors
         THEN ErrorResp("404")
         ELSE [ErrorResp("found") EXCEPT
                  !.proc = processors[UserID(ParseToken(hdr).AccessToken)]]

\* HandleStartProcessingInbox
HandleStartProcessingInbox(r) ==
    /\ reqs[r].pc = "idle"
    /\ \E hdr \in AuthHeaders :
          LET found == Lookup(hdr) IN
          \/ /\ found.status \in {"401", "panic"}
             /\ Answer(r, "start", hdr, found)
             /\ UNCHANGED <<processors, created, isProcessing, loops>>
          \/ /\ found.status = "found"
             /\ Answer(r, "start", hdr, GetProgress(found.proc))
             /\ UNCHANGED <<processors, created, isProcessing, loops>>
          \/ /\ found.status = "404"
             /\ Answer(r, "start", hdr, ErrorResp("500"))
             /\ UNCHANGED <<processors, created, isProcessing, loops>>
          \/ /\ found.status = "404"
             /\ created' = created \cup {r}
             /\ Register(UserID(ParseToken(hdr).AccessToken), r)
             /\ StartProcessingOK(r)
             /\ Answer(r, "start", hdr,
                       [status |-> "ok", proc |-> r,
                        totalEmails |-> stats[r].TotalEmails, isProcessing |-> TRUE])
    /\ UNCHANGED <<fn, locks, emails, stats>>

\* HandleGetInboxStatus
HandleGetInboxStatus(r) ==
    /\ reqs[r].pc = "idle"
    /\ \E hdr \in AuthHeaders :
          LET found == Lookup(hdr) IN
          Answer(r, "status", hdr,
                 IF found.status = "found" THEN GetProgress(found.proc) ELSE found)
    /\ UNCHANGED <<fn, locks, processors, created, isProcessing, emails, stats, loops>>

\* The response whose body was read from processor p.
BodyOf(p) == [NoResp EXCEPT !.status = "ok", !.proc = p]

\* HandleGetTopSenders: the body is GetTopSenders(20) of the processor found;
\* the response records the processor it was read from.
HandleGetTopSenders(r) ==
    /\ reqs[r].pc = "idle"
    /\ \E hdr \in AuthHeaders :
          LET found == Lookup(hdr) IN
          Answer(r, "top", hdr,
                 IF found.status = "found" THEN BodyOf(found.proc) ELSE found)
    /\ UNCHANGED <<fn, locks, processors, created, isProcessing, emails, stats, loops>>

\* HandleGetEmailStats: the body is the encoding of GetStats() of the
\* processor found.
HandleGetEmailStats(r) ==
    /\ reqs[r].pc = "idle"
    /\ \E hdr \in AuthHeaders :
          LET found == Lookup(hdr) IN
          Answer(r, "stats", hdr,
                 IF found.status = "found" THEN BodyOf(found.proc) ELSE found)
    /\ UNCHANGED <<fn, locks, processors, created, isProcessing, emails, stats, loops>>

EndpointNext ==
    \E r \in Reqs :
        \/ HandleStartProcessingInbox(r)
        \/ HandleGetInboxStatus(r)
        \/ HandleGetTopSenders(r)
        \/ HandleGetEmailStats(r)

NextEndpoints == EndpointNext \/ LoopNext

SpecEndpoints == InitEndpoints /\ [][NextEndpoints]_vars

\* The step creates no registry entry and no processor and starts no run.
NothingStarted ==
    /\ processors' = processors
    /\ created' = created
    /\ loops' = loops
    /\ isProcessing' = isProcessing

\* C21: each of the four endpoints answers Unauthorized when no Authorization
\* credential is supplied; status, top senders and stats answer NotFound when
\* the registry holds no processor for the caller's key; and a request
\* answered with either error creates no registry entry and starts no run.
C21_Step ==
    \A r \in Reqs :
        (reqs[r].pc = "idle" /\ reqs'[r].pc = "done") =>
            /\ reqs'[r].hdr.kind = "none" =>
                  reqs'[r].resp.status = "401" /\ NothingStarted
            /\ ( /\ reqs'[r].endpoint \in {"status", "top", "stats"}
                 /\ reqs'[r].hdr.kind = "token"
                 /\ Len(reqs'[r].hdr.AccessToken) >= KeyLen
                 /\ UserID(reqs'[r].hdr.AccessToken) \notin DOMAIN processors ) =>
                  reqs'[r].resp.status = "404" /\ NothingStarted
            /\ reqs'[r].resp.status \in {"401", "404"} => NothingStarted

C21_ErrorsCreateNothing == [][C21_Step]_vars

\* A start request without credential and a stats request for an unknown key
\* have been answered; the registry is empty.
C21_Witness ==
    \E r1, r2 \in Reqs :
        /\ reqs[r1].endpoint = "start"
        /\ reqs[r1].hdr.kind = "none"
        /\ reqs[r1].resp.status = "401"
        /\ reqs[r2].endpoint = "stats"
        /\ reqs[r2].hdr.kind = "token"
        /\ reqs[r2].resp.status = "404"
        /\ processors = EmptyMap
        /\ \A l \in Runs : loops[l].pc = "none"

\* C29: a request whose Authorization header parses as a token is answered
\* with an error or a normal HTTP response whatever the length of the access
\* token: deriving the identity key never fails.
C29_KeyDerivationNeverFails ==
    \A r \in Reqs :
        (reqs[r].pc = "done" /\ reqs[r].hdr.kind = "token") =>
            reqs[r].resp.status \in {"ok", "401", "404", "500"}

\* C30: what a caller is answered derives from a run started with that
\* caller's own credential: the processor read was constructed for the
\* access token the caller presents.
C30_OwnProcessorOnly ==
    \A r \in Reqs :
        (reqs[r].pc = "done" /\ reqs[r].resp.status = "ok") =>
            reqs[reqs[r].resp.proc].tok = reqs[r].tok

----------------------------------------------------------------------------
(* A registered processor, two callers that each call StartProcessing or   *)
(* GetProgress, and Registry.Remove of its entry.                          *)

\* The key processor 1 is registered under.
RegisteredKey == UserID(LongToken("a"))

InitRegistered ==
    /\ processors = (RegisteredKey :> 1)
    /\ created = {1}
    /\ isProcessing = [p \in Procs |-> FALSE]
    /\ emails = [p \in Procs |-> EmptyBag]
    /\ stats = [p \in Procs |-> NewEmailStats]
    /\ loops = [l \in Runs |-> NoLoop]
    /\ reqs = [r \in Reqs |-> [pc |-> IF r <= 2 THEN "call" ELSE "done",
                               tok |-> <<>>, proc |-> 1,
                               afterFailed |-> FALSE, resp |-> NoResp]]
    /\ locks = Unlocked
    /\ fn = NoFn

\* delete(r.processors, userID)
Deleted(userID) == [k \in DOMAIN processors \ {userID} |-> processors[k]]

\* Registry.Remove(userID)
Remove(userID) ==
    /\ userID \in DOMAIN processors
    /\ processors' = Deleted(userID)
    /\ UNCHANGED <<fn, locks, created, isProcessing, emails, stats, loops, reqs>>

\* A status query: p.GetProgress()
QueryProgress(r) ==
    /\ reqs[r].pc = "call"
    /\ reqs' = [reqs EXCEPT ![r].pc = "done", ![r].resp = GetProgress(reqs[r].proc)]
    /\ UNCHANGED <<fn, locks, processors, created, isProcessing, emails, stats, loops>>

NextRegistered ==
    \/ \E r \in Reqs : StartProcessing(r)
    \/ \E r \in Reqs : QueryProgress(r)
    \/ Remove(RegisteredKey)
    \/ LoopNext

SpecRegistered == InitRegistered /\ [][NextRegistered]_vars

\* C23: a run leaves the running state only through page exhaustion or a
\* listing failure: the flag is cleared by the run's own goroutine after one
\* of the two, no step of a caller (StartProcessing, GetProgress, Remove)
\* changes a started goroutine or clears the flag, and with the entry removed
\* every unfinished goroutine can still take its next step.
C23_Inv ==
    /\ \A l \in Runs :
          loops[l].pc \in {"clear", "log", "done"} =>
             ListFailed(loops[l]) \/ LastPageListed(loops[l])
    /\ processors = EmptyMap =>
          \A l \in Runs : loops[l].pc \notin {"none", "done"} => ENABLED LoopStep(l)

C23_Step ==
    /\ \A p \in Procs :
          (isProcessing[p] /\ ~isProcessing'[p]) =>
             \E l \in LoopsOf(p) :
                /\ loops[l].pc = "clear"
                /\ loops'[l].pc = "log"
                /\ ListFailed(loops[l]) \/ LastPageListed(loops[l])
    /\ (reqs' # reqs \/ processors' # processors) =>
          /\ \A l \in Runs : loops[l].pc # "none" => loops'[l] = loops[l]
          /\ \A p \in Procs : isProcessing[p] => isProcessing'[p]

C23_OnlyTheRunEndsItself == []C23_Inv /\ [][C23_Step]_vars

\* The entry has been removed and a start request refused while the run goes
\* on with its second page.
C23_Witness ==
    /\ processors = EmptyMap
    /\ \E r \in Reqs : reqs[r].resp.status = "error"
    /\ loops[1].pc = "wait"
    /\ Len(loops[1].calls) = NumPages
    /\ isProcessing[1]

----------------------------------------------------------------------------
(* Every user of the three locks, statement by statement: SpecLocks plus   *)
(* the registry operations and StartProcessing.                            *)

RegistryMu == <<"registry", NoProc>>

\* The processor is constructed, not yet registered and not yet started;
\* two callers use it.
InitAllLocks ==
    /\ processors = EmptyMap
    /\ created = {1}
    /\ isProcessing = [p \in Procs |-> FALSE]
    /\ emails = [p \in Procs |-> EmptyBag]
    /\ stats = [p \in Procs |-> NewEmailStats]
    /\ loops = [l \in Runs |-> NoLoop]
    /\ reqs = [r \in Reqs |-> [pc |-> IF r <= 2 THEN "idle" ELSE "done",
                               tok |-> <<>>, proc |-> 1,
                               afterFailed |-> FALSE, resp |-> NoResp]]
    /\ locks = Unlocked
    /\ fn = NoFn

\* Registry.Get: r.mu.RLock()
GetRLock(r) ==
    /\ reqs[r].pc = "idle"
    /\ CanRLock(RegistryMu)
    /\ locks' = Acquire(RegistryMu, CallerG(r), "r")
    /\ reqs' = [reqs EXCEPT ![r].pc = "get_read"]
    /\ UNCHANGED <<fn, processors, created, isProcessing, emails, stats, loops>>

\* Registry.Get: the map read, then the deferred RUnlock
GetReturn(r) ==
    /\ reqs[r].pc = "get_read"
    /\ locks' = Release(RegistryMu, CallerG(r))
    /\ reqs' = [reqs EXCEPT ![r].pc = "idle"]
    /\ UNCHANGED <<fn, processors, created, isProcessing, emails, stats, loops>>

\* Registry.Register: r.mu.Lock()
RegisterLock(r) ==
    /\ reqs[r].pc = "idle"
    /\ CanLock(RegistryMu)
    /\ locks' = Acquire(RegistryMu, CallerG(r), "w")
    /\ reqs' = [reqs EXCEPT ![r].pc = "register_write"]
    /\ UNCHANGED <<fn, processors, created, isProcessing, emails, stats, loops>>

\* Registry.Register: the map write, then the deferred Unlock
RegisterUnlock(r) ==
    /\ reqs[r].pc = "register_write"
    /\ Register(RegisteredKey, reqs[r].proc)
    /\ locks' = Release(RegistryMu, CallerG(r))
    /\ reqs' = [reqs EXCEPT ![r].pc = "idle"]
    /\ UNCHANGED <<fn, created, isProcessing, emails, stats, loops>>

\* Registry.Remove: r.mu.Lock()
RemoveLock(r) ==
    /\ reqs[r].pc = "idle"
    /\ CanLock(RegistryMu)
    /\ locks' = Acquire(RegistryMu, CallerG(r), "w")
    /\ reqs' = [reqs EXCEPT ![r].pc = "remove_write"]
    /\ UNCHANGED <<fn, processors, created, isProcessing, emails, stats, loops>>

\* Registry.Remove: the delete, then the deferred Unlock
RemoveUnlock(r) ==
    /\ reqs[r].pc = "remove_write"
    /\ processors' = Deleted(RegisteredKey)
    /\ locks' = Release(RegistryMu, CallerG(r))
    /\ reqs' = [reqs EXCEPT ![r].pc = "idle"]
    /\ UNCHANGED <<fn, created, isProcessing, emails, stats, loops>>

\* StartProcessing: p.mu.Lock(). The calls followed are the one that starts
\* the first run and those made while a run is in progress.
StartLock(r) ==
    /\ reqs[r].pc = "idle"
    /\ AlreadyProcessing(reqs[r].proc) \/ \A l \in Runs : loops[l].pc = "none"
    /\ CanLock(Mu(reqs[r].proc))
    /\ locks' = Acquire(Mu(reqs[r].proc), CallerG(r), "w")
    /\ reqs' = [reqs EXCEPT ![r].pc = "start_check"]
    /\ UNCHANGED <<fn, processors, created, isProcessing, emails, stats, loops>>

\* StartProcessing: the test of the flag, p.mu.Unlock(), and either the
\* error or `go p.processInbox()`
StartUnlock(r) ==
    /\ reqs[r].pc = "start_check"
    /\ StartProcessingOK(reqs[r].proc) \/ StartProcessingErr(reqs[r].proc)
    /\ locks' = Release(Mu(reqs[r].proc), CallerG(r))
    /\ reqs' = [reqs EXCEPT ![r].pc = "idle"]
    /\ UNCHANGED <<fn, processors, created, emails, stats>>

RegistryLocksNext ==
    \E r \in Reqs :
        \/ GetRLock(r)
        \/ GetReturn(r)
        \/ RegisterLock(r)
        \/ RegisterUnlock(r)
        \/ RemoveLock(r)
        \/ RemoveUnlock(r)
        \/ StartLock(r)
        \/ StartUnlock(r)

NextAllLocks == LoopLocksNext \/ CallerLocksNext \/ RegistryLocksNext

SpecAllLocks == InitAllLocks /\ [][NextAllLocks]_vars

\* The next statement of goroutine g, which holds a lock.
HolderStep(g) ==
    CASE g.kind = "worker" ->
            \/ EmailsUnlock(g.id, g.m)
            \/ StatsFromCount(g.id, g.m)
            \/ StatsUnlock(g.id, g.m)
      [] g.kind = "loop" -> TotalUnlock(g.id) \/ ClearUnlock(g.id)
      [] OTHER ->
            \/ ProgressReturn(g.id)
            \/ TopRange(g.id)
            \/ TopReturn(g.id)
            \/ GetReturn(g.id)
            \/ RegisterUnlock(g.id)
            \/ RemoveUnlock(g.id)
            \/ StartUnlock(g.id)

\* C25: no goroutine holds more than one of the three locks (registry lock,
\* run lock, statistics lock) at a time, and a goroutine that holds a lock can
\* always take its next step: no goroutine waits while holding, so no
\* interleaving of workers, loop and callers can deadlock.
C25_AtMostOneLockHeld ==
    /\ \A k1, k2 \in Locks :
          \A h1 \in locks[k1] : \A h2 \in locks[k2] : h1.g = h2.g => k1 = k2
    /\ \A k \in Locks : \A h \in locks[k] : ENABLED HolderStep(h.g)

\* The three locks are held at once, by three different goroutines.
C25_Witness ==
    /\ locks[RegistryMu] # {}
    /\ locks[Mu(1)] # {}
    /\ locks[StatsMu(1)] # {}
    /\ \E l \in Runs, m \in Msgs : Holds(WorkerG(l, m), StatsMu(1))

====
